---- MODULE Spec2Model ----
(***************************************************************************)
(* Model of Drum.py: the Moku_Go controller wrapping a Moku:Go lock-in     *)
(* amplifier (self.LIA), its frequency scan, its spatial scan driving the  *)
(* stepper motors, and the ownership of the device by controller           *)
(* instances.                                                              *)
(*                                                                         *)
(* The instrument and the motors are recorded as a test double would       *)
(* record them: the last arguments of every setter (lia), the positions    *)
(* the motors were commanded to (radialPos, angularPos), and the ordered   *)
(* log of the calls issued (calls).  Amplitudes are in millivolts so that  *)
(* the default .100 V is the integer 100.                                  *)
(***************************************************************************)
EXTENDS Integers, Sequences, FiniteSets

VARIABLES
    lia,         \* recorded state of the lock-in amplifier (self.LIA)
    calls,       \* calls issued by the operation in progress / last run
    pc,          \* position of the controller in the running operation
    fault,       \* which call raised, "none" when nothing raised
    nops,        \* number of operations started
    lastOp,      \* name of the operation started last
    args,        \* parameters of the configre_lockin call in progress
    freqs,       \* scan: the freqs argument
    plot,        \* scan: the plot argument
    i,           \* scan / spatial_scan: outer loop index (0-based)
    val,         \* scan / spatial_scan: local val
    amplitudes,  \* scan: local list amplitudes
    result,      \* scan: returned array, NoResult until scan returns
    failedAt,    \* scan: iterations (1-based) whose read raised
    nread,       \* number of LIA.get_data calls made so far
    j,           \* spatial_scan: inner loop index (0-based)
    rad,         \* spatial_scan: local list rad
    data,        \* spatial_scan: local list data
    radialPos,   \* radial motor position, relative to its start
    angularPos,  \* angular motor position, relative to its start
    rLen,        \* spatial_scan: len(r)
    thetaLen,    \* spatial_scan: len(theta)
    owned,       \* per controller instance: the device holds its claim
    session,     \* per controller instance: "none", "open" or "closed"
    last         \* the last Construct / Close: what was asked and how it ended

cfgVars  == <<lia, args>>
opVars   == <<calls, pc, fault, nops, lastOp>>
scanVars == <<freqs, plot, i, val, amplitudes, result, failedAt, nread>>
spVars   == <<j, rad, data, radialPos, angularPos, rLen, thetaLen>>
sessVars == <<owned, session, last>>
vars     == <<lia, calls, pc, fault, nops, lastOp, args, freqs, plot, i, val,
              amplitudes, result, failedAt, nread, j, rad, data, radialPos,
              angularPos, rLen, thetaLen, owned, session, last>>

(***************************************************************************)
(* Bounds of the model and inputs of the operations.                       *)
(***************************************************************************)
MaxOps == 3
MaxFreqs == 3
MaxScans == 2
NumInstances == 3

Freqs   == {320, 440}
Amps    == {100, 2500}
Corners == {10, 20}
Slopes  == {6, 7, 12, 18, 24}
Gains   == {40}
AxisLens == {0, 1, 11, 18}
Instances == 1..NumInstances

(***************************************************************************)
(* Program constants.                                                      *)
(***************************************************************************)
DefaultFreq   == 320
DefaultAmp    == 100
DefaultCorner == 10
DefaultSlope  == 12
DefaultGain   == 40
FilterCorner  == 10
AuxGain       == 1
AmplitudeFreqArg == 0
ScanDelay     == 1
AngularSteps  == 18
RadialSteps   == 10
RadialStep    == 700
RadialSettle  == 3
RadialReturn  == -7250
RadialAdjust  == 250
AngularStep   == 40
AngularSettle == 2

Unset   == 0 - 1
NoSlope == "unset"
NoneVal == 0 - 2
NoResult == <<Unset>>

\* One call on the SDK, the motor driver, time or pyplot: its name, its
\* numeric arguments in order, and its enumerated (string) argument.
Call(op, num, id) == [op |-> op, num |-> num, id |-> id]

OpNames(cs) == [k \in 1..Len(cs) |-> cs[k].op]

CountOp(cs, op) == Cardinality({k \in 1..Len(cs) : cs[k].op = op})

IsPrefix(s, t) == Len(s) <= Len(t) /\ \A k \in 1..Len(s) : s[k] = t[k]

(***************************************************************************)
(* The recorded state of a freshly connected instrument: nothing set.      *)
(***************************************************************************)
FreshLIA ==
    [frontend |-> "unset", demodFreq |-> Unset, auxFreq |-> Unset,
     auxAmp |-> Unset, filterCorner |-> Unset, filterSlope |-> NoSlope,
     gainMain |-> Unset, gainAux |-> Unset, monitor |-> "unset",
     outputs |-> "unset", polar |-> "unset"]

NoArgs == [freq |-> Unset, amp |-> Unset, lowpass_corner |-> Unset,
           lowpass_slope |-> Unset, gain |-> Unset]

(***************************************************************************)
(* What each SDK setter records, from the arguments the code passes.       *)
(***************************************************************************)
set_frontend(l) == [l EXCEPT !.frontend = "AC/1MOhm/0dB"]
set_demodulation(l, f) == [l EXCEPT !.demodFreq = f]
set_aux_output(l, f, a) == [l EXCEPT !.auxFreq = f, !.auxAmp = a]
set_filter(l, c, s) == [l EXCEPT !.filterCorner = c, !.filterSlope = s]
set_gain(l, m, a) == [l EXCEPT !.gainMain = m, !.gainAux = a]
set_monitor(l) == [l EXCEPT !.monitor = "2:MainOutput"]
set_outputs(l) == [l EXCEPT !.outputs = "R/Demod"]
set_polar_mode(l) == [l EXCEPT !.polar = "7.5mVpp"]

ValidSlopes == {6, 12, 18, 24}

\* The if/elif chain of configre_lockin: slope value -> SDK slope identifier.
SlopeId(s) ==
    CASE s = 6  -> "Slope6dB"
      [] s = 12 -> "Slope12dB"
      [] s = 18 -> "Slope18dB"
      [] s = 24 -> "Slope24dB"
      [] OTHER  -> NoSlope

\* The corner frequency configre_lockin passes to set_filter.
FilterCornerArg(a) == FilterCorner

(***************************************************************************)
(* A call on the SDK either returns, and the instrument records it, or     *)
(* raises.  Nothing in configre_lockin, set_amplitude or set_frequency     *)
(* catches: the exception leaves the operation where it stands.            *)
(***************************************************************************)
Returns(c, newLia, next) ==
    /\ calls' = Append(calls, c)
    /\ lia' = newLia
    /\ pc' = next
    /\ UNCHANGED fault

\* Mutant of Raises: the failed operation undoes what it had applied.
Raises_Rollback(c) ==
    /\ pc' = "raised"
    /\ fault' = c.op
    /\ lia' = FreshLIA
    /\ UNCHANGED calls

Raises(c) ==
    /\ pc' = "raised"
    /\ fault' = c.op
    /\ UNCHANGED <<calls, lia>>

Issue(c, newLia, next) ==
    \/ Returns(c, newLia, next)
    \/ Raises(c)

Idle == pc = "idle" /\ nops < MaxOps

Begin(op) ==
    /\ Idle
    /\ nops' = nops + 1
    /\ lastOp' = op

(***************************************************************************)
(* configre_lockin(freq, amp, lowpass_corner, lowpass_slope, gain)         *)
(***************************************************************************)
ConfigureCall(freq, amp, lowpass_corner, lowpass_slope, gain) ==
    /\ Begin("configre_lockin")
    /\ args' = [freq |-> freq, amp |-> amp, lowpass_corner |-> lowpass_corner,
                lowpass_slope |-> lowpass_slope, gain |-> gain]
    /\ calls' = <<>>
    /\ pc' = "set_frontend"
    /\ UNCHANGED <<lia, fault, scanVars, spVars, sessVars>>

CfgFrontend ==
    /\ pc = "set_frontend"
    /\ Issue(Call("set_frontend", <<1>>, "AC/1MOhm/0dB"),
             set_frontend(lia), "set_demodulation")
    /\ UNCHANGED <<nops, lastOp, args, scanVars, spVars, sessVars>>

CfgDemodulation ==
    /\ pc = "set_demodulation"
    /\ Issue(Call("set_demodulation", <<args.freq, 0>>, "Internal"),
             set_demodulation(lia, args.freq), "set_aux_output")
    /\ UNCHANGED <<nops, lastOp, args, scanVars, spVars, sessVars>>

CfgAuxOutput ==
    /\ pc = "set_aux_output"
    /\ Issue(Call("set_aux_output", <<args.freq, args.amp>>, ""),
             set_aux_output(lia, args.freq, args.amp), "set_filter")
    /\ UNCHANGED <<nops, lastOp, args, scanVars, spVars, sessVars>>

\* Mutant of CfgFilter: a final else branch sets the filter for any slope.
CfgFilter_ElseBranch ==
    /\ pc = "set_filter"
    /\ Issue(Call("set_filter", <<FilterCornerArg(args)>>,
                  IF args.lowpass_slope \in ValidSlopes
                  THEN SlopeId(args.lowpass_slope) ELSE "Slope6dB"),
             set_filter(lia, FilterCornerArg(args),
                        IF args.lowpass_slope \in ValidSlopes
                        THEN SlopeId(args.lowpass_slope) ELSE "Slope6dB"),
             "set_gain")
    /\ UNCHANGED <<nops, lastOp, args, scanVars, spVars, sessVars>>

\* No branch of the if/elif chain matches a slope outside 6, 12, 18, 24:
\* the code falls through to set_gain without a call.
CfgFilter ==
    /\ pc = "set_filter"
    /\ \/ /\ args.lowpass_slope \in ValidSlopes
          /\ Issue(Call("set_filter", <<FilterCornerArg(args)>>,
                        SlopeId(args.lowpass_slope)),
                   set_filter(lia, FilterCornerArg(args),
                              SlopeId(args.lowpass_slope)),
                   "set_gain")
       \/ /\ args.lowpass_slope \notin ValidSlopes
          /\ pc' = "set_gain"
          /\ UNCHANGED <<calls, lia, fault>>
    /\ UNCHANGED <<nops, lastOp, args, scanVars, spVars, sessVars>>

CfgGain ==
    /\ pc = "set_gain"
    /\ Issue(Call("set_gain", <<args.gain, AuxGain>>, ""),
             set_gain(lia, args.gain, AuxGain), "set_monitor")
    /\ UNCHANGED <<nops, lastOp, args, scanVars, spVars, sessVars>>

CfgMonitor ==
    /\ pc = "set_monitor"
    /\ Issue(Call("set_monitor", <<2>>, "MainOutput"),
             set_monitor(lia), "set_outputs")
    /\ UNCHANGED <<nops, lastOp, args, scanVars, spVars, sessVars>>

CfgOutputs ==
    /\ pc = "set_outputs"
    /\ Issue(Call("set_outputs", <<>>, "R/Demod"),
             set_outputs(lia), "set_polar_mode")
    /\ UNCHANGED <<nops, lastOp, args, scanVars, spVars, sessVars>>

CfgPolarMode ==
    /\ pc = "set_polar_mode"
    /\ Issue(Call("set_polar_mode", <<>>, "7.5mVpp"),
             set_polar_mode(lia), "idle")
    /\ UNCHANGED <<nops, lastOp, args, scanVars, spVars, sessVars>>

(***************************************************************************)
(* set_amplitude(amplitude): one set_aux_output call whose first argument, *)
(* the frequency in configre_lockin's use of the same call, is 0.          *)
(***************************************************************************)
SetAmplitude(amplitude) ==
    /\ Begin("set_amplitude")
    /\ \/ /\ calls' = <<Call("set_aux_output", <<AmplitudeFreqArg, amplitude>>, "")>>
          /\ lia' = set_aux_output(lia, AmplitudeFreqArg, amplitude)
          /\ UNCHANGED <<pc, fault>>
       \/ /\ calls' = <<>>
          /\ pc' = "raised"
          /\ fault' = "set_aux_output"
          /\ UNCHANGED lia
    /\ UNCHANGED <<args, scanVars, spVars, sessVars>>

(***************************************************************************)
(* set_frequency(freq, phase=0): one set_demodulation call; phase is not   *)
(* passed on.                                                              *)
(***************************************************************************)
SetFrequency(freq) ==
    /\ Begin("set_frequency")
    /\ \/ /\ calls' = <<Call("set_demodulation", <<freq>>, "Internal")>>
          /\ lia' = set_demodulation(lia, freq)
          /\ UNCHANGED <<pc, fault>>
       \/ /\ calls' = <<>>
          /\ pc' = "raised"
          /\ fault' = "set_demodulation"
          /\ UNCHANGED lia
    /\ UNCHANGED <<args, scanVars, spVars, sessVars>>

(***************************************************************************)
(* The values the variables of the other operations rest at.               *)
(***************************************************************************)
OpRest ==
    /\ calls = <<>> /\ pc = "idle" /\ fault = "none" /\ nops = 0
    /\ lastOp = "none"

CfgRest == lia = FreshLIA /\ args = NoArgs

ScanRest ==
    /\ freqs = <<>> /\ plot = FALSE /\ i = 0 /\ val = NoneVal
    /\ amplitudes = <<>> /\ result = NoResult /\ failedAt = {} /\ nread = 0

SpRest ==
    /\ j = 0 /\ rad = <<>> /\ data = <<>> /\ radialPos = 0 /\ angularPos = 0
    /\ rLen = 0 /\ thetaLen = 0

SessRest ==
    /\ owned = [k \in Instances |-> FALSE]
    /\ session = [k \in Instances |-> "none"]
    /\ last = [op |-> "none", inst |-> 0, force |-> FALSE, ok |-> TRUE]

\* Instance 1 has constructed its controller and holds the device.
SessOpen ==
    /\ owned = [k \in Instances |-> k = 1]
    /\ session = [k \in Instances |-> IF k = 1 THEN "open" ELSE "none"]
    /\ last = [op |-> "construct", inst |-> 1, force |-> FALSE, ok |-> TRUE]

(***************************************************************************)
(* SpecConfig: a constructed controller (defaults=False) on which          *)
(* configre_lockin, set_amplitude and set_frequency are called in any      *)
(* order.                                                                  *)
(***************************************************************************)
InitConfig == OpRest /\ CfgRest /\ ScanRest /\ SpRest /\ SessOpen

NextConfig ==
    \/ \E f \in Freqs, a \in Amps, c \in Corners, s \in Slopes, g \in Gains :
          ConfigureCall(f, a, c, s, g)
    \/ CfgFrontend
    \/ CfgDemodulation
    \/ CfgAuxOutput
    \/ CfgFilter
    \/ CfgGain
    \/ CfgMonitor
    \/ CfgOutputs
    \/ CfgPolarMode
    \/ \E a \in Amps : SetAmplitude(a)
    \/ \E f \in Freqs : SetFrequency(f)

SpecConfig == InitConfig /\ [][NextConfig]_vars

(***************************************************************************)
(* Properties of configre_lockin, set_amplitude and set_frequency.         *)
(***************************************************************************)
InConfigure == lastOp = "configre_lockin"

CfgDone == InConfigure /\ pc = "idle" /\ fault = "none"

AfterFilterStep == {"set_gain", "set_monitor", "set_outputs", "set_polar_mode"}

PastFilter ==
    /\ InConfigure
    /\ \/ pc \in AfterFilterStep
       \/ pc = "idle"
       \/ pc = "raised" /\ fault \in AfterFilterStep

FilterCalls == {k \in 1..Len(calls) : calls[k].op = "set_filter"}

FixedOrder ==
    <<"set_frontend", "set_demodulation", "set_aux_output", "set_filter",
      "set_gain", "set_monitor", "set_outputs", "set_polar_mode">>

OrderWithoutFilter ==
    <<"set_frontend", "set_demodulation", "set_aux_output",
      "set_gain", "set_monitor", "set_outputs", "set_polar_mode">>

\* C3: once configre_lockin is past its filter step, a slope of 6, 12, 18
\* or 24 has issued exactly one set_filter call, with corner frequency 10
\* and the identifier of that slope; any other slope has issued none; and a
\* completed configre_lockin has issued each of the seven other steps once.
C3_FilterOnlyForValidSlope ==
    PastFilter =>
        /\ args.lowpass_slope \in {6, 12, 18, 24} =>
              /\ Cardinality(FilterCalls) = 1
              /\ \A k \in FilterCalls :
                    /\ calls[k].num = <<10>>
                    /\ args.lowpass_slope = 6  => calls[k].id = "Slope6dB"
                    /\ args.lowpass_slope = 12 => calls[k].id = "Slope12dB"
                    /\ args.lowpass_slope = 18 => calls[k].id = "Slope18dB"
                    /\ args.lowpass_slope = 24 => calls[k].id = "Slope24dB"
        /\ args.lowpass_slope \notin {6, 12, 18, 24} => FilterCalls = {}
        /\ CfgDone =>
              \A k \in 1..7 : CountOp(calls, OrderWithoutFilter[k]) = 1

\* A configre_lockin with slope 7 has completed with its seven calls and no
\* set_filter, on an instrument whose filter an earlier configre_lockin with
\* slope 12 had set.
C3_Witness ==
    /\ CfgDone
    /\ args.lowpass_slope = 7
    /\ Len(calls) = 7
    /\ lia.filterSlope = "Slope12dB"
    /\ lia.filterCorner = 10

\* C10: every set_filter call configre_lockin issues carries the
\* lowpass_corner it was given.
C10_FilterCarriesCorner ==
    InConfigure =>
        \A k \in FilterCalls : calls[k].num = <<args.lowpass_corner>>

ExpectedOrder(slope) ==
    IF slope \in {6, 12, 18, 24} THEN FixedOrder ELSE OrderWithoutFilter

\* What the instrument records once the calls cs of a configre_lockin with
\* parameters a have been applied and none undone.
Applied(cs, a, l) ==
    \A k \in 1..Len(cs) :
        /\ cs[k].op = "set_frontend" => l.frontend = "AC/1MOhm/0dB"
        /\ cs[k].op = "set_demodulation" => l.demodFreq = a.freq
        /\ cs[k].op = "set_aux_output" =>
              l.auxFreq = a.freq /\ l.auxAmp = a.amp
        /\ cs[k].op = "set_filter" =>
              l.filterCorner = cs[k].num[1] /\ l.filterSlope = cs[k].id
        /\ cs[k].op = "set_gain" => l.gainMain = a.gain /\ l.gainAux = 1
        /\ cs[k].op = "set_monitor" => l.monitor = "2:MainOutput"
        /\ cs[k].op = "set_outputs" => l.outputs = "R/Demod"
        /\ cs[k].op = "set_polar_mode" => l.polar = "7.5mVpp"

\* C7 as stated: the calls of one configre_lockin are a prefix of the fixed
\* order of eight steps, the whole of it when no step fails; when a step
\* fails it is the one after the calls issued, and none is undone.
C7_PrefixOfFixedOrder ==
    InConfigure =>
        /\ IsPrefix(OpNames(calls), FixedOrder)
        /\ CfgDone => OpNames(calls) = FixedOrder
        /\ pc = "raised" => FixedOrder[Len(calls) + 1] = fault
        /\ Applied(calls, args, lia)

\* C7 amended: the same, with the set_filter step left out of the order
\* when the slope is not one of 6, 12, 18, 24.
C7_PrefixOfExpectedOrder ==
    InConfigure =>
        /\ IsPrefix(OpNames(calls), ExpectedOrder(args.lowpass_slope))
        /\ CfgDone => OpNames(calls) = ExpectedOrder(args.lowpass_slope)
        /\ pc = "raised" =>
              ExpectedOrder(args.lowpass_slope)[Len(calls) + 1] = fault
        /\ Applied(calls, args, lia)

\* A configre_lockin on a configured instrument has failed at set_gain with
\* new parameters: the four steps before it are applied, the rest keep the
\* earlier configuration.
C7_Witness ==
    /\ InConfigure
    /\ pc = "raised"
    /\ fault = "set_gain"
    /\ Len(calls) = 4
    /\ nops = 2
    /\ lia.demodFreq = 440
    /\ lia.polar = "7.5mVpp"

(***************************************************************************)
(* get_output(): LIA.get_data() and the average of its 'ch2' samples.      *)
(* The double's frame carries two samples around the response of the drum  *)
(* at the reference frequency set and at the position of the sensor; the   *)
(* response is distinct for every frequency and position used and is       *)
(* never 0.                                                                *)
(***************************************************************************)
Drum(f, r, th) == f + r + th

Frame(l, r, th) ==
    [ch1 |-> <<0, 0>>,
     ch2 |-> <<Drum(l.demodFreq, r, th) - 1, Drum(l.demodFreq, r, th) + 1>>]

RECURSIVE SumSeq(_)
SumSeq(s) == IF s = <<>> THEN 0 ELSE Head(s) + SumSeq(Tail(s))

Average(s) == SumSeq(s) \div Len(s)

get_output == Average(Frame(lia, radialPos, angularPos).ch2)

(***************************************************************************)
(* scan(freqs, delay=1, plot)                                              *)
(***************************************************************************)
RECURSIVE SeqsUpTo(_, _)
SeqsUpTo(S, n) ==
    IF n = 0 THEN {<<>>}
    ELSE SeqsUpTo(S, n - 1) \cup
         {Append(q, x) : q \in {t \in SeqsUpTo(S, n - 1) : Len(t) = n - 1},
                         x \in S}

\* Where scan goes once iteration k (0-based) is over, or the loop is empty.
AfterIteration(k, n, p) ==
    IF k < n THEN "scan_set" ELSE IF p THEN "scan_plot" ELSE "scan_return"

ScanCall(fs, p) ==
    /\ pc = "idle" /\ nops < MaxScans
    /\ nops' = nops + 1
    /\ lastOp' = "scan"
    /\ freqs' = fs
    /\ plot' = p
    /\ amplitudes' = <<>>
    /\ i' = 0
    /\ val' = NoneVal
    /\ result' = NoResult
    /\ failedAt' = {}
    /\ calls' = <<>>
    /\ pc' = AfterIteration(0, Len(fs), p)
    /\ UNCHANGED <<lia, fault, args, nread, spVars, sessVars>>

\* self.set_frequency(f): not inside the try, a failure leaves scan.
ScanSetFrequency ==
    /\ pc = "scan_set"
    /\ Issue(Call("set_demodulation", <<freqs[i + 1]>>, "Internal"),
             set_demodulation(lia, freqs[i + 1]), "scan_sleep")
    /\ UNCHANGED <<nops, lastOp, args, scanVars, spVars, sessVars>>

\* Mutant of ScanSleep: the read follows the frequency change at once.
ScanSleep_NoWait ==
    /\ pc = "scan_sleep"
    /\ pc' = "scan_read"
    /\ UNCHANGED <<calls, lia, fault, nops, lastOp, args, scanVars, spVars,
                   sessVars>>

ScanSleep ==
    /\ pc = "scan_sleep"
    /\ calls' = Append(calls, Call("sleep", <<ScanDelay>>, ""))
    /\ pc' = "scan_read"
    /\ UNCHANGED <<lia, fault, nops, lastOp, args, scanVars, spVars, sessVars>>

\* What scan appends for the value the try/except left in val.
Appended(v) == IF v # NoneVal THEN v ELSE 0

\* Mutant of ScanRead: no try/except around get_output.
ScanRead_Propagates ==
    /\ pc = "scan_read"
    /\ nread' = nread + 1
    /\ \/ /\ val' = get_output
          /\ calls' = Append(calls, Call("get_data", <<>>, "ok"))
          /\ amplitudes' = Append(amplitudes, Appended(val'))
          /\ i' = i + 1
          /\ pc' = AfterIteration(i + 1, Len(freqs), plot)
          /\ UNCHANGED <<fault, failedAt>>
       \/ /\ calls' = Append(calls, Call("get_data", <<>>, "raised"))
          /\ failedAt' = failedAt \cup {i + 1}
          /\ pc' = "raised"
          /\ fault' = "get_data"
          /\ UNCHANGED <<val, amplitudes, i>>
    /\ UNCHANGED <<lia, nops, lastOp, args, freqs, plot, result, spVars,
                   sessVars>>

\* try: val = self.get_output() / except: val = 0, the append, the progress
\* line, and the step of the loop.
ScanRead ==
    /\ pc = "scan_read"
    /\ nread' = nread + 1
    /\ \/ /\ val' = get_output
          /\ calls' = Append(calls, Call("get_data", <<>>, "ok"))
          /\ UNCHANGED failedAt
       \/ /\ val' = 0
          /\ calls' = Append(calls, Call("get_data", <<>>, "raised"))
          /\ failedAt' = failedAt \cup {i + 1}
    /\ amplitudes' = Append(amplitudes, Appended(val'))
    /\ i' = i + 1
    /\ pc' = AfterIteration(i + 1, Len(freqs), plot)
    /\ UNCHANGED <<lia, fault, nops, lastOp, args, freqs, plot, result,
                   spVars, sessVars>>

\* plt.plot(freqs, amplitudes) raises when the two lengths differ.
ScanPlot ==
    /\ pc = "scan_plot"
    /\ IF Len(freqs) = Len(amplitudes)
       THEN /\ calls' = Append(calls, Call("plot", <<Len(freqs)>>, ""))
            /\ pc' = "scan_return"
            /\ UNCHANGED fault
       ELSE /\ pc' = "raised"
            /\ fault' = "plot"
            /\ UNCHANGED calls
    /\ UNCHANGED <<lia, nops, lastOp, args, scanVars, spVars, sessVars>>

ScanReturn ==
    /\ pc = "scan_return"
    /\ result' = amplitudes
    /\ pc' = "idle"
    /\ UNCHANGED <<lia, calls, fault, nops, lastOp, args, freqs, plot, i, val,
                   amplitudes, failedAt, nread, spVars, sessVars>>

(***************************************************************************)
(* SpecScan: a constructed controller on which scan is called.             *)
(***************************************************************************)
InitScan == OpRest /\ CfgRest /\ ScanRest /\ SpRest /\ SessOpen

NextScan ==
    \/ \E fs \in SeqsUpTo(Freqs, MaxFreqs), p \in BOOLEAN : ScanCall(fs, p)
    \/ ScanSetFrequency
    \/ ScanSleep
    \/ ScanRead
    \/ ScanPlot
    \/ ScanReturn

SpecScan == InitScan /\ [][NextScan]_vars

InScan == lastOp = "scan"

ScanDone == InScan /\ pc = "idle" /\ fault = "none"

\* The calls of iterations 1..n of a scan over fs whose reads raised on the
\* iterations in bad: set f_k, wait, read, in input order.
RECURSIVE ScanLog(_, _, _)
ScanLog(fs, n, bad) ==
    IF n = 0 THEN <<>>
    ELSE ScanLog(fs, n - 1, bad) \o
         <<Call("set_demodulation", <<fs[n]>>, "Internal"),
           Call("sleep", <<1>>, ""),
           Call("get_data", <<>>, IF n \in bad THEN "raised" ELSE "ok")>>

\* C1: while nothing has failed, the calls of scan are a prefix of
\* (set f_k, wait, read) for k = 1..n in input order; the scan that has
\* returned has issued exactly n of each and its result has length n, entry
\* k being the reading taken at frequency f_k.
C1_ScanReadsEachFrequencyInOrder ==
    (InScan /\ fault = "none" /\ failedAt = {}) =>
        /\ IsPrefix(calls, ScanLog(freqs, Len(freqs), {}) \o
                            <<Call("plot", <<Len(freqs)>>, "")>>)
        /\ \A k \in 1..Len(amplitudes) : amplitudes[k] = Drum(freqs[k], 0, 0)
        /\ ScanDone =>
              /\ CountOp(calls, "set_demodulation") = Len(freqs)
              /\ CountOp(calls, "sleep") = Len(freqs)
              /\ CountOp(calls, "get_data") = Len(freqs)
              /\ Len(calls) = 3 * Len(freqs) + (IF plot THEN 1 ELSE 0)
              /\ Len(result) = Len(freqs)
              /\ \A k \in 1..Len(freqs) : result[k] = Drum(freqs[k], 0, 0)

\* A plotted scan over 440, 320, 440 Hz has returned its three readings.
C1_Witness ==
    /\ ScanDone
    /\ failedAt = {}
    /\ plot
    /\ freqs = <<440, 320, 440>>
    /\ result = <<440, 320, 440>>
    /\ Len(calls) = 10

\* C2: a read that raises in iteration k of scan puts 0 in entry k, never
\* leaves scan with an error, and is followed by the calls of iteration
\* k + 1; the scan that returns has made all n iterations and its result has
\* length n, with 0 exactly in the entries whose read raised.
C2_ScanReadFailureIsZero ==
    InScan =>
        /\ fault # "get_data"
        /\ \A k \in failedAt : k <= Len(amplitudes) /\ amplitudes[k] = 0
        /\ fault = "none" =>
              IsPrefix(SelectSeq(calls, LAMBDA c : c.op # "plot"),
                       ScanLog(freqs, Len(freqs), failedAt))
        /\ ScanDone =>
              /\ SelectSeq(calls, LAMBDA c : c.op # "plot")
                    = ScanLog(freqs, Len(freqs), failedAt)
              /\ Len(result) = Len(freqs)
              /\ \A k \in 1..Len(freqs) :
                    result[k] = IF k \in failedAt THEN 0
                                ELSE Drum(freqs[k], 0, 0)

\* A scan over three frequencies has returned after the reads of
\* iterations 1 and 2 raised.
C2_Witness ==
    /\ ScanDone
    /\ Len(freqs) = 3
    /\ failedAt = {1, 2}
    /\ result = <<0, 0, Drum(freqs[3], 0, 0)>>
    /\ Len(calls) >= 9

(***************************************************************************)
(* spatial_scan(r, theta).  The motors move by the number of steps they    *)
(* are given, relative to where they stand.                                *)
(***************************************************************************)
\* Mutant of OuterRange: one pass per entry of theta.
OuterRange_LenTheta == thetaLen

OuterRange == AngularSteps

InnerRange == RadialSteps

\* The recorded state after configre_lockin() with its default parameters.
DefaultLIA ==
    set_polar_mode(set_outputs(set_monitor(set_gain(
        set_filter(set_aux_output(set_demodulation(set_frontend(FreshLIA),
                                                   DefaultFreq),
                                  DefaultFreq, DefaultAmp),
                   FilterCorner, SlopeId(DefaultSlope)),
        DefaultGain, AuxGain))))

SpatialCall(rl, tl) ==
    /\ pc = "idle" /\ lastOp = "none"
    /\ nops' = nops + 1
    /\ lastOp' = "spatial_scan"
    /\ rLen' = rl
    /\ thetaLen' = tl
    /\ data' = <<>>
    /\ i' = 0
    /\ calls' = <<>>
    /\ pc' = IF 0 < OuterRange THEN "sp_baseline" ELSE "sp_plot"
    /\ UNCHANGED <<lia, fault, args, freqs, plot, val, amplitudes, result,
                   failedAt, nread, j, rad, radialPos, angularPos, sessVars>>

\* A get_output() of spatial_scan that raises: nothing catches it.
SpReadRaises ==
    /\ nread' = nread + 1
    /\ calls' = Append(calls, Call("get_data", <<>>, "raised"))
    /\ failedAt' = failedAt \cup {<<i + 1, Len(rad') + 1>>}
    /\ pc' = "raised"
    /\ fault' = "get_data"

\* rad = []; val = self.get_output(); rad.append(val)
SpBaseline ==
    /\ pc = "sp_baseline"
    /\ \/ /\ val' = get_output
          /\ nread' = nread + 1
          /\ calls' = Append(calls, Call("get_data", <<>>, "ok"))
          /\ rad' = <<val'>>
          /\ j' = 0
          /\ pc' = IF 0 < InnerRange THEN "sp_move" ELSE "sp_append"
          /\ UNCHANGED <<fault, failedAt>>
       \/ /\ rad' = <<>>
          /\ SpReadRaises
          /\ UNCHANGED <<val, j>>
    /\ UNCHANGED <<lia, nops, lastOp, args, freqs, plot, i, amplitudes,
                   result, data, radialPos, angularPos, rLen, thetaLen,
                   sessVars>>

\* A call on the motor driver: the motor moves, or the call raises.
RadialGo(steps, next) ==
    \/ /\ radialPos' = radialPos + steps
       /\ calls' = Append(calls, Call("_radial_go", <<steps>>, ""))
       /\ pc' = next
       /\ UNCHANGED fault
    \/ /\ pc' = "raised"
       /\ fault' = "_radial_go"
       /\ UNCHANGED <<radialPos, calls>>

SpMove ==
    /\ pc = "sp_move"
    /\ RadialGo(RadialStep, "sp_settle")
    /\ UNCHANGED <<lia, nops, lastOp, args, scanVars, j, rad, data,
                   angularPos, rLen, thetaLen, sessVars>>

SpSettle ==
    /\ pc = "sp_settle"
    /\ calls' = Append(calls, Call("sleep", <<RadialSettle>>, ""))
    /\ pc' = "sp_read"
    /\ UNCHANGED <<lia, fault, nops, lastOp, args, scanVars, spVars, sessVars>>

\* Mutant of SpRead: the read is wrapped as in scan, a failure reads as 0.
SpRead_Swallows ==
    /\ pc = "sp_read"
    /\ nread' = nread + 1
    /\ \/ /\ val' = get_output
          /\ calls' = Append(calls, Call("get_data", <<>>, "ok"))
          /\ UNCHANGED failedAt
       \/ /\ val' = 0
          /\ calls' = Append(calls, Call("get_data", <<>>, "raised"))
          /\ failedAt' = failedAt \cup {<<i + 1, Len(rad) + 1>>}
    /\ rad' = Append(rad, val')
    /\ j' = j + 1
    /\ pc' = IF j + 1 < InnerRange THEN "sp_move" ELSE "sp_append"
    /\ UNCHANGED <<lia, fault, nops, lastOp, args, freqs, plot, i, amplitudes,
                   result, data, radialPos, angularPos, rLen, thetaLen,
                   sessVars>>

\* val = self.get_output(); rad.append(val); print(...); next j
SpRead ==
    /\ pc = "sp_read"
    /\ \/ /\ val' = get_output
          /\ nread' = nread + 1
          /\ calls' = Append(calls, Call("get_data", <<>>, "ok"))
          /\ rad' = Append(rad, val')
          /\ j' = j + 1
          /\ pc' = IF j + 1 < InnerRange THEN "sp_move" ELSE "sp_append"
          /\ UNCHANGED <<fault, failedAt>>
       \/ /\ UNCHANGED rad
          /\ SpReadRaises
          /\ UNCHANGED <<val, j>>
    /\ UNCHANGED <<lia, nops, lastOp, args, freqs, plot, i, amplitudes,
                   result, data, radialPos, angularPos, rLen, thetaLen,
                   sessVars>>

\* data.append(_n.array(rad))
SpAppend ==
    /\ pc = "sp_append"
    /\ data' = Append(data, rad)
    /\ pc' = "sp_return"
    /\ UNCHANGED <<lia, calls, fault, nops, lastOp, args, scanVars, j, rad,
                   radialPos, angularPos, rLen, thetaLen, sessVars>>

\* motor._radial_go(-7250)
SpReturn ==
    /\ pc = "sp_return"
    /\ RadialGo(RadialReturn, "sp_adjust")
    /\ UNCHANGED <<lia, nops, lastOp, args, scanVars, j, rad, data,
                   angularPos, rLen, thetaLen, sessVars>>

\* Mutant of SpAdjust: the second return command is left out.
SpAdjust_Missing ==
    /\ pc = "sp_adjust"
    /\ pc' = "sp_angular"
    /\ UNCHANGED <<lia, calls, fault, nops, lastOp, args, scanVars, spVars,
                   sessVars>>

\* motor._radial_go(250)
SpAdjust ==
    /\ pc = "sp_adjust"
    /\ RadialGo(RadialAdjust, "sp_angular")
    /\ UNCHANGED <<lia, nops, lastOp, args, scanVars, j, rad, data,
                   angularPos, rLen, thetaLen, sessVars>>

\* motor._angular_go(40)
SpAngular ==
    /\ pc = "sp_angular"
    /\ \/ /\ angularPos' = angularPos + AngularStep
          /\ calls' = Append(calls, Call("_angular_go", <<AngularStep>>, ""))
          /\ pc' = "sp_pass_settle"
          /\ UNCHANGED fault
       \/ /\ pc' = "raised"
          /\ fault' = "_angular_go"
          /\ UNCHANGED <<angularPos, calls>>
    /\ UNCHANGED <<lia, nops, lastOp, args, scanVars, j, rad, data,
                   radialPos, rLen, thetaLen, sessVars>>

\* _time.sleep(2); next i
SpPassSettle ==
    /\ pc = "sp_pass_settle"
    /\ calls' = Append(calls, Call("sleep", <<AngularSettle>>, ""))
    /\ i' = i + 1
    /\ pc' = IF i + 1 < OuterRange THEN "sp_baseline" ELSE "sp_plot"
    /\ UNCHANGED <<lia, fault, nops, lastOp, args, freqs, plot, val,
                   amplitudes, result, failedAt, nread, spVars, sessVars>>

\* meshgrid(r, theta) has len(theta) rows of len(r) columns; contourf
\* raises unless that is the shape of data.
GridFits ==
    /\ thetaLen = Len(data)
    /\ \A a \in 1..Len(data) : rLen = Len(data[a])

SpPlot ==
    /\ pc = "sp_plot"
    /\ IF GridFits
       THEN /\ calls' = Append(calls, Call("contourf", <<rLen, thetaLen>>, ""))
            /\ pc' = "idle"
            /\ UNCHANGED fault
       ELSE /\ pc' = "raised"
            /\ fault' = "contourf"
            /\ UNCHANGED calls
    /\ UNCHANGED <<lia, nops, lastOp, args, scanVars, spVars, sessVars>>

(***************************************************************************)
(* SpecSpatial: a controller constructed with defaults=True on which       *)
(* spatial_scan is called once.                                            *)
(***************************************************************************)
InitSpatial ==
    /\ OpRest /\ ScanRest /\ SpRest /\ SessOpen
    /\ lia = DefaultLIA
    /\ args = NoArgs

NextSpatial ==
    \/ \E rl \in AxisLens, tl \in AxisLens : SpatialCall(rl, tl)
    \/ SpBaseline
    \/ SpMove
    \/ SpSettle
    \/ SpRead
    \/ SpAppend
    \/ SpReturn
    \/ SpAdjust
    \/ SpAngular
    \/ SpPassSettle
    \/ SpPlot

SpecSpatial == InitSpatial /\ [][NextSpatial]_vars

InSpatial == lastOp = "spatial_scan"

\* Both loops of spatial_scan are over: only the plot is left or made.
SpLoopsDone ==
    /\ InSpatial
    /\ \/ pc \in {"sp_plot", "idle"}
       \/ pc = "raised" /\ fault = "contourf"

RECURSIVE Repeat(_, _)
Repeat(s, n) == IF n = 0 THEN <<>> ELSE Repeat(s, n - 1) \o s

\* The calls of one angular pass: the baseline read, 10 times (move 700,
\* wait 3 s, read), then the return commands, the angular step and 2 s.
PassLog ==
    <<Call("get_data", <<>>, "ok")>> \o
    Repeat(<<Call("_radial_go", <<700>>, ""), Call("sleep", <<3>>, ""),
             Call("get_data", <<>>, "ok")>>, 10) \o
    <<Call("_radial_go", <<-7250>>, ""), Call("_radial_go", <<250>>, ""),
      Call("_angular_go", <<40>>, ""), Call("sleep", <<2>>, "")>>

SpatialLog == Repeat(PassLog, 18)

ScanCallsOf(cs) == SelectSeq(cs, LAMBDA c : c.op # "contourf")

\* C5: whatever the lengths of r and theta, while no read and no motor
\* call has failed the calls of spatial_scan are a prefix of 18 passes of
\* (read, 10 x (move, wait, read), return); once the loops are over there
\* have been exactly 198 reads and data holds 18 rows of 11 readings, row a
\* column b being the reading taken on pass a after b - 1 radial moves.
C5_SpatialScanIs18By11 ==
    (InSpatial /\ fault \in {"none", "contourf"}) =>
        /\ IsPrefix(ScanCallsOf(calls), SpatialLog)
        /\ SpLoopsDone =>
              /\ ScanCallsOf(calls) = SpatialLog
              /\ nread = 198
              /\ CountOp(calls, "get_data") = 198
              /\ i = 18
              /\ Len(data) = 18
              /\ \A a \in 1..Len(data) :
                    /\ Len(data[a]) = 11
                    /\ \A b \in 1..Len(data[a]) :
                          data[a][b] = Drum(lia.demodFreq, 700 * (b - 1),
                                            40 * (a - 1))

\* The loops are over with 198 reads for r of length 1 and theta of
\* length 0.
C5_Witness ==
    /\ SpLoopsDone
    /\ pc = "sp_plot"
    /\ rLen = 1
    /\ thetaLen = 0
    /\ nread = 198
    /\ Len(data) = 18

\* C8: at the baseline read of every pass the radial motor stands where it
\* started and the angular motor has advanced 40 units per completed pass;
\* within a pass the radial motor stands 700 units further out per move, and
\* after the last pass it is back at the start, 18 x 40 units round.
C8_RadialReturnsToOrigin ==
    InSpatial =>
        /\ pc = "sp_baseline" => radialPos = 0 /\ angularPos = 40 * i
        /\ pc = "sp_read" => radialPos = 700 * (j + 1)
        /\ pc = "sp_return" => radialPos = 7000
        /\ pc = "sp_pass_settle" => radialPos = 0 /\ angularPos = 40 * (i + 1)
        /\ SpLoopsDone => radialPos = 0 /\ angularPos = 720

\* The baseline read of the 18th pass is due, 17 passes completed.
C8_Witness ==
    /\ InSpatial
    /\ pc = "sp_baseline"
    /\ i = 17
    /\ Len(data) = 17
    /\ radialPos = 0
    /\ angularPos = 680

ZeroInGrid ==
    \/ \E b \in 1..Len(rad) : rad[b] = 0
    \/ \E a \in 1..Len(data) : \E b \in 1..Len(data[a]) : data[a][b] = 0

\* C9 as stated: a read of spatial_scan that raises does not leave the scan
\* with an error; its place in the grid holds 0.
C9_SpatialReadFailureIsZero ==
    InSpatial =>
        /\ fault # "get_data"
        /\ \A f \in failedAt : f[1] = i + 1 => rad[f[2]] = 0
        /\ \A f \in failedAt : f[1] <= Len(data) => data[f[1]][f[2]] = 0

\* C9 amended: a read of spatial_scan that raises, baseline or radial, ends
\* the scan with that error: it is the last call made, no 0 is put in its
\* place, and the grid stays short of 18 rows.
C9_SpatialReadFailureSurfaces ==
    InSpatial =>
        /\ ~ZeroInGrid
        /\ failedAt # {} =>
              /\ pc = "raised"
              /\ fault = "get_data"
              /\ failedAt = {<<i + 1, Len(rad) + 1>>}
              /\ calls[Len(calls)] = Call("get_data", <<>>, "raised")
              /\ CountOp(calls, "get_data") = nread
              /\ Len(data) = i
              /\ Len(data) < 18

\* The last radial read of the last pass has raised.
C9_Witness ==
    /\ InSpatial
    /\ fault = "get_data"
    /\ pc = "raised"
    /\ failedAt = {<<18, 11>>}
    /\ nread = 198
    /\ Len(data) = 17

(***************************************************************************)
(* Ownership of the device.  LockInAmp(IP, force_connect) claims the       *)
(* device for the new client: it raises when the device is owned and       *)
(* force_connect is False, and with force_connect True it takes the device *)
(* from whoever owns it.  relinquish_ownership() releases the caller's own *)
(* claim; from a client that holds none it changes nothing.                *)
(***************************************************************************)
DefaultArgs ==
    [freq |-> DefaultFreq, amp |-> DefaultAmp,
     lowpass_corner |-> DefaultCorner, lowpass_slope |-> DefaultSlope,
     gain |-> DefaultGain]

\* The calls configre_lockin makes for parameters a, in order.
ConfigSteps(a) ==
    <<"set_frontend", "set_demodulation", "set_aux_output">> \o
    (IF a.lowpass_slope \in ValidSlopes THEN <<"set_filter">> ELSE <<>>) \o
    <<"set_gain", "set_monitor", "set_outputs", "set_polar_mode">>

StepEffect(name, l, a) ==
    CASE name = "set_frontend"     -> set_frontend(l)
      [] name = "set_demodulation" -> set_demodulation(l, a.freq)
      [] name = "set_aux_output"   -> set_aux_output(l, a.freq, a.amp)
      [] name = "set_filter"       ->
            set_filter(l, FilterCornerArg(a), SlopeId(a.lowpass_slope))
      [] name = "set_gain"         -> set_gain(l, a.gain, AuxGain)
      [] name = "set_monitor"      -> set_monitor(l)
      [] name = "set_outputs"      -> set_outputs(l)
      [] name = "set_polar_mode"   -> set_polar_mode(l)

\* The recorded state after the first n calls of configre_lockin(a).
RECURSIVE ApplySteps(_, _, _)
ApplySteps(l, a, n) ==
    IF n = 0 THEN l
    ELSE StepEffect(ConfigSteps(a)[n], ApplySteps(l, a, n - 1), a)

Owned == \E k \in Instances : owned[k]

\* Mutant of Claim: a forced claim leaves the earlier claims standing.
Claim_KeepsOthers(k) == [owned EXCEPT ![k] = TRUE]

\* The device's record of its owner once client k has claimed it.
Claim(k) == [m \in Instances |-> m = k]

Done(op, k, force, ok) ==
    last' = [op |-> op, inst |-> k, force |-> force, ok |-> ok]

\* Moku_Go(IP, force_connect, defaults) by controller instance k.
Construct(k, force_connect, defaults) ==
    /\ session[k] # "open"
    /\ \/ \* the device is unreachable, or owned and not to be forced
          /\ Done("construct", k, force_connect, FALSE)
          /\ UNCHANGED <<lia, owned, session>>
       \/ /\ ~Owned \/ force_connect
          /\ owned' = Claim(k)
          /\ \/ /\ ~defaults
                /\ session' = [session EXCEPT ![k] = "open"]
                /\ Done("construct", k, force_connect, TRUE)
                /\ UNCHANGED lia
             \/ /\ defaults
                /\ lia' = ApplySteps(lia, DefaultArgs,
                                     Len(ConfigSteps(DefaultArgs)))
                /\ session' = [session EXCEPT ![k] = "open"]
                /\ Done("construct", k, force_connect, TRUE)
             \/ \* a call of configre_lockin raises: __init__ raises with
                \* the device claimed and no controller to close
                /\ defaults
                /\ \E n \in 0..(Len(ConfigSteps(DefaultArgs)) - 1) :
                      lia' = ApplySteps(lia, DefaultArgs, n)
                /\ Done("construct", k, force_connect, FALSE)
                /\ UNCHANGED session
    /\ UNCHANGED <<opVars, args, scanVars, spVars>>

\* close() by controller instance k, whose controller exists.
Close(k) ==
    /\ session[k] \in {"open", "closed"}
    /\ session' = [session EXCEPT ![k] = "closed"]
    /\ \/ /\ owned[k]
          /\ owned' = [owned EXCEPT ![k] = FALSE]
          /\ Done("close", k, FALSE, TRUE)
       \/ /\ ~owned[k]
          /\ UNCHANGED owned
          /\ \E ok \in BOOLEAN : Done("close", k, FALSE, ok)
    /\ UNCHANGED <<opVars, cfgVars, scanVars, spVars>>

(***************************************************************************)
(* SpecSession: controller instances constructing and closing against one  *)
(* device.                                                                 *)
(***************************************************************************)
InitSession == OpRest /\ CfgRest /\ ScanRest /\ SpRest /\ SessRest

NextSession ==
    \/ \E k \in Instances, f \in BOOLEAN, d \in BOOLEAN : Construct(k, f, d)
    \/ \E k \in Instances : Close(k)

SpecSession == InitSession /\ [][NextSession]_vars

Active(k) == session[k] = "open" /\ owned[k]

AtMostOneActive ==
    /\ Cardinality({k \in Instances : Active(k)}) <= 1
    /\ Cardinality({k \in Instances : owned[k]}) <= 1

\* A Construct with force_connect False against an owned device fails and
\* changes neither the ownership nor any session.
UnforcedConstructFails ==
    (last'.op = "construct" /\ ~last'.force /\ Owned) =>
        /\ ~last'.ok
        /\ owned' = owned
        /\ session' = session

\* C6 as stated: at most one session is open and holding the device; an
\* unforced Construct against an owned device fails without changing
\* ownership; and an instance comes to hold the device only when no
\* instance held it, the holder having released it through close.
C6_AcquireOnlyAfterRelease ==
    /\ []AtMostOneActive
    /\ [][/\ UnforcedConstructFails
          /\ \A k \in Instances :
                (owned'[k] /\ ~owned[k]) => ~Owned]_vars

\* C6 amended: the same, but an instance also comes to hold an owned device
\* by a Construct with force_connect True, which takes it from its holder
\* without any close.
C6_AcquireAfterReleaseOrForce ==
    /\ []AtMostOneActive
    /\ [][/\ UnforcedConstructFails
          /\ \A k \in Instances :
                (owned'[k] /\ ~owned[k]) =>
                    \/ ~Owned
                    \/ /\ last' = [op |-> "construct", inst |-> k,
                                   force |-> TRUE, ok |-> last'.ok]
                       /\ \A m \in Instances \ {k} : ~owned'[m]]_vars

\* Instance 2 has taken the device by force from instance 1, whose session
\* is still open.
C6_Witness ==
    /\ last = [op |-> "construct", inst |-> 2, force |-> TRUE, ok |-> TRUE]
    /\ session[1] = "open" /\ ~owned[1]
    /\ Active(2)
    /\ lia.demodFreq = 320

====
